---- MODULE Spec2Model ----
(***************************************************************************)
(* Model of the event/user service of src/5.py: the users and event        *)
(* tables, and the route handlers create_user, create_event, update_event, *)
(* update_date, update_members and delete_event.                           *)
(*                                                                         *)
(* A handler runs from one await of a database statement to the next; one  *)
(* step of a handler is one statement together with the Python code that   *)
(* follows it up to the next statement.  A statement that writes is        *)
(* followed at once by connection.commit(), so statement and commit are    *)
(* one step.  Selects read the committed tables.  The handlers that are    *)
(* running form a bag: each request is served by its own task, and the     *)
(* tasks share no state but the two tables.                                *)
(*                                                                         *)
(* Strings whose characters the code inspects (names, passwords, the       *)
(* members field) are sequences of one-character strings over the          *)
(* characters the inputs use.  Ids of the event table are not used again   *)
(* after a DELETE; the users table has no UPDATE and no DELETE.            *)
(***************************************************************************)
EXTENDS Integers, Sequences, FiniteSets, Bags, TLC

VARIABLES
    users,      \* the users table: the rows in id order
    events,     \* the event table: id -> row
    nextEid,    \* the next AUTO_INCREMENT id of the event table
    inflight,   \* the bag of running handlers
    last        \* the response sent last

vars == <<users, events, nextEid, inflight, last>>

(* ------------------------------ bounds --------------------------------- *)

MaxUsers == 2

MaxEvents == 2

MaxRsvp == 2

MaxInflight == 2

(* ------------------------- characters, strings ------------------------- *)

LowerChars == {"a", "b", "c", "d", "e", "l", "o", "x", "y"}

UpperChars == {"A", "B", "E"}

DigitChars == {"0", "1", "2", "3", "4", "5", "6", "7", "8", "9"}

isdigit(c) == c \in DigitChars

islower(c) == c \in LowerChars

isupper(c) == c \in UpperChars

AnyChar(P(_), s) == \E i \in 1..Len(s) : P(s[i])

\* str(n) of a non-negative int, as f"{member_id}" formats it
RECURSIVE IntToStr(_)
IntToStr(n) ==
    LET d == <<"0", "1", "2", "3", "4", "5", "6", "7", "8", "9">>
    IN  IF n < 10 THEN <<d[n + 1]>> ELSE IntToStr(n \div 10) \o <<d[(n % 10) + 1]>>

\* s.split(","): the pieces between commas, the empty ones included
RECURSIVE split(_)
split(s) ==
    IF \A i \in 1..Len(s) : s[i] # ","
    THEN <<s>>
    ELSE LET i == CHOOSE k \in 1..Len(s) :
                      s[k] = "," /\ \A j \in 1..(k - 1) : s[j] # ","
         IN  <<SubSeq(s, 1, i - 1)>> \o split(SubSeq(s, i + 1, Len(s)))

(* ----------------------------- Python values --------------------------- *)

None == [t |-> "none", v |-> <<>>]

PyInt(n) == [t |-> "int", v |-> n]

PyStr(s) == [t |-> "str", v |-> s]

PyTuple(items) == [t |-> "tuple", v |-> items]

isinstance_tuple(x) == x.t = "tuple"

\* truth value of an object in an `if`
Truthy(x) ==
    CASE x.t = "none" -> FALSE
      [] x.t = "int" -> x.v # 0
      [] x.t = "str" -> Len(x.v) > 0
      [] x.t = "tuple" -> Len(x.v) > 0

\* a == b: an int never equals a str
PyEq(a, b) == IF a.t = b.t THEN a.v = b.v ELSE FALSE

\* x in list_
PyIn(x, list) == \E i \in 1..Len(list) : PyEq(x, list[i])

\* cursor.fetchone() of aiomysql: the next row of the result, None when
\* there is none
fetchone(rows) == IF Len(rows) = 0 THEN None ELSE PyTuple(rows[1])

\* cursor.fetchall() of aiomysql: the tuple of the rows of the result, the
\* empty tuple when a SELECT has found none
fetchall(rows) == PyTuple([i \in 1..Len(rows) |-> PyTuple(rows[i])])

(* ------------------------------- tables -------------------------------- *)

\* users: the rows in id order, the id of a row is its position (AUTO_INCREMENT)
UserIds == 1..Len(users)

\* SELECT isadmin FROM users WHERE name = %s
SelectIsAdmin(name) ==
    LET hit == SelectSeq(users, LAMBDA r : r.name = name)
    IN  [i \in 1..Len(hit) |-> <<PyInt(hit[i].isadmin)>>]

\* SELECT id FROM users WHERE id = %s
SelectUserId(uid) == IF uid \in UserIds THEN <<<<PyInt(uid)>>>> ELSE <<>>

\* SELECT id FROM event WHERE id = %s
SelectEventId(eid) == IF eid \in DOMAIN events THEN <<<<PyInt(eid)>>>> ELSE <<>>

\* SELECT members FROM event WHERE id = %s
SelectMembers(eid) ==
    IF eid \in DOMAIN events THEN <<<<PyStr(events[eid].members)>>>> ELSE <<>>

\* the name column without its UNIQUE constraint
NameTakenNoUnique(name) == FALSE

\* the name column is UNIQUE
NameTaken(name) == \E i \in UserIds : users[i].name = name

\* a Python bool stored in a BOOLEAN (TINYINT) column
BoolToTiny(b) == IF b THEN 1 ELSE 0

(* ------------------------------ requests ------------------------------- *)

EventOps == {"create_event", "update_event", "update_date", "update_members",
             "delete_event"}

NoReq == [op |-> "none", user |-> <<>>, surname |-> <<>>, password |-> <<>>,
          is_admin |-> FALSE, id |-> 0, member_id |-> 0, title |-> "",
          description |-> "", time |-> 0]

UserReq(name, surname, password, is_admin) ==
    [NoReq EXCEPT !.op = "create_user", !.user = name, !.surname = surname,
                  !.password = password, !.is_admin = is_admin]

EventReq(user, title, description, time) ==
    [NoReq EXCEPT !.op = "create_event", !.user = user, !.title = title,
                  !.description = description, !.time = time]

EditReq(user, id, title, description) ==
    [NoReq EXCEPT !.op = "update_event", !.user = user, !.id = id,
                  !.title = title, !.description = description]

DateReq(user, id, time) ==
    [NoReq EXCEPT !.op = "update_date", !.user = user, !.id = id, !.time = time]

RsvpReq(user, id, member_id) ==
    [NoReq EXCEPT !.op = "update_members", !.user = user, !.id = id,
                  !.member_id = member_id]

DeleteReq(user, id) ==
    [NoReq EXCEPT !.op = "delete_event", !.user = user, !.id = id]

\* a running handler: its request, the statement it executes next, and the
\* members field update_members has read
Handler(r) ==
    [pc |-> IF r.op = "create_user" THEN "insert" ELSE "auth", req |-> r,
     check |-> <<>>]

\* a response: status and detail, whether the handler's writing statement
\* found its row, and the members value an RSVP write replaced
NoResponse == [req |-> NoReq, status |-> 0, detail |-> "", matched |-> FALSE,
               replaced |-> <<>>]

Handlers == BagToSet(inflight)

\* the number of running handlers that satisfy P
Count(P(_)) == BagCardinality([h \in {g \in Handlers : P(g)} |-> inflight[h]])

Running(op) == Count(LAMBDA g : g.req.op = op)

RunningRsvp(eid) == Count(LAMBDA g : g.req.op = "update_members" /\ g.req.id = eid)

\* the number of identifiers written into a members field
Entries(m) == Cardinality({i \in 1..Len(m) : m[i] = ","})

\* the bounds of the model: the handlers that run at once, and the rows a
\* request may still add
Admissible(r) ==
    /\ BagCardinality(inflight) < MaxInflight
    /\ CASE r.op = "create_user" ->
                Len(users) + Running("create_user") < MaxUsers
         [] r.op = "create_event" ->
                (nextEid - 1) + Running("create_event") < MaxEvents
         [] r.op = "update_members" ->
                r.id \in DOMAIN events =>
                    Entries(events[r.id].members) + RunningRsvp(r.id) < MaxRsvp
         [] OTHER -> TRUE

Without(h) == inflight (-) SetToBag({h})

\* the handler ends with a response
Respond(h, status, detail, matched, replaced) ==
    /\ inflight' = Without(h)
    /\ last' = [req |-> h.req, status |-> status, detail |-> detail,
                matched |-> matched, replaced |-> replaced]

\* the handler goes on to its next statement
Goto(h, g) ==
    /\ inflight' = Without(h) (+) SetToBag({g})
    /\ UNCHANGED last

Init ==
    /\ users = <<>>
    /\ events = <<>>
    /\ nextEid = 1
    /\ inflight = EmptyBag
    /\ last = NoResponse

\* a request arrives and its handler is scheduled
Receive(r) ==
    /\ Admissible(r)
    /\ inflight' = inflight (+) SetToBag({Handler(r)})
    /\ UNCHANGED <<users, events, nextEid, last>>

(* ------------------------------ validators ----------------------------- *)

\* check_letters building its exception without raising it
check_lettersNoRaise(value) == FALSE

\* User.check_letters: TRUE when it raises HTTPException(400)
check_letters(value) == AnyChar(isdigit, value)

\* User.validate_password: the detail of the HTTPException(400) it raises, or
\* "" when it returns; the digit and special-character branches build an
\* exception and drop it
validate_password(v) ==
    IF ~AnyChar(islower, v)
    THEN "Password must contain at least one lowercase letter"
    ELSE IF ~AnyChar(isupper, v)
    THEN "Password must contain at least one uppercase letter"
    ELSE ""

(* ------------------------- writing statements -------------------------- *)

\* INSERT INTO users (...) VALUES (...)
InsertUser(r) ==
    Append(users, [name |-> r.user, surname |-> r.surname,
                   password |-> r.password, isadmin |-> BoolToTiny(r.is_admin)])

\* INSERT INTO event (title, user, description, time, members) VALUES (..., '')
InsertEvent(r) ==
    events @@ (nextEid :> [title |-> r.title, user |-> r.user,
                           description |-> r.description, time |-> r.time,
                           members |-> <<>>])

\* the UPDATE as an upsert: a row that is gone is written again
UpdateEventUpsert(eid, title, description) ==
    IF eid \in DOMAIN events
    THEN [i \in DOMAIN events |->
            IF i = eid
            THEN [events[i] EXCEPT !.title = title, !.description = description]
            ELSE events[i]]
    ELSE events @@ (eid :> [title |-> title, user |-> <<>>,
                            description |-> description, time |-> 0,
                            members |-> <<>>])

\* UPDATE event SET title = %s, description = %s WHERE id = %s
UpdateEvent(eid, title, description) ==
    [i \in DOMAIN events |->
        IF i = eid
        THEN [events[i] EXCEPT !.title = title, !.description = description]
        ELSE events[i]]

\* the UPDATE without its WHERE clause
UpdateTimeNoWhere(eid, time) ==
    [i \in DOMAIN events |-> [events[i] EXCEPT !.time = time]]

\* UPDATE event SET time = %s WHERE id = %s
UpdateTime(eid, time) ==
    [i \in DOMAIN events |->
        IF i = eid THEN [events[i] EXCEPT !.time = time] ELSE events[i]]

\* UPDATE event SET members = %s WHERE id = %s
UpdateMembers(eid, members) ==
    [i \in DOMAIN events |->
        IF i = eid THEN [events[i] EXCEPT !.members = members] ELSE events[i]]

\* DELETE FROM event WHERE id = %s
DeleteEvent(eid) == [i \in DOMAIN events \ {eid} |-> events[i]]

\* the value to write taken from the members field as it is at the UPDATE
MembersToWriteFresh(h) ==
    events[h.req.id].members \o IntToStr(h.req.member_id) \o <<",">>

\* f"{check[0]}{member_id},": the value update_members writes, from the
\* members field it read at its SELECT
MembersToWrite(h) ==
    h.check \o IntToStr(h.req.member_id) \o <<",">>

(* ------------------------------ handlers ------------------------------- *)

\* A handler answers with the status and the detail of the source; the
\* backquote of "hasn`t" is left out of the details.  An exception that is
\* no HTTPException and no aiomysql.Error is answered 500.

At(h, op, pc) == h \in Handlers /\ h.pc = pc /\ h.req.op = op

create_user(h) ==
    /\ At(h, "create_user", "insert")
    /\ LET r == h.req
       IN  IF check_letters(r.user) \/ check_letters(r.surname)
           THEN /\ Respond(h, 400, "Fields 'name' and 'surname' must not contain numbers", FALSE, <<>>)
                /\ UNCHANGED users
           ELSE IF validate_password(r.password) # ""
           THEN /\ Respond(h, 400, validate_password(r.password), FALSE, <<>>)
                /\ UNCHANGED users
           ELSE IF NameTaken(r.user)
           THEN /\ Respond(h, 400, "User already exists", FALSE, <<>>)
                /\ UNCHANGED users
           ELSE /\ users' = InsertUser(r)
                /\ Respond(h, 201, "User has been added.", TRUE, <<>>)
    /\ UNCHANGED <<events, nextEid>>

create_event(h) ==
    /\ At(h, "create_event", "auth")
    /\ LET r == h.req
           resp == fetchone(SelectIsAdmin(r.user))
       IN  IF isinstance_tuple(resp)
           THEN IF Truthy(resp.v[1])
                THEN /\ events' = InsertEvent(r)
                     /\ nextEid' = nextEid + 1
                     /\ Respond(h, 201, "Event has been added.", TRUE, <<>>)
                ELSE /\ Respond(h, 403, "User hasnt permissions for create event", FALSE, <<>>)
                     /\ UNCHANGED <<events, nextEid>>
           ELSE /\ Respond(h, 404, "User not found", FALSE, <<>>)
                /\ UNCHANGED <<events, nextEid>>
    /\ UNCHANGED users

update_event(h) ==
    LET r == h.req
    IN  \/ /\ At(h, "update_event", "auth")
           /\ LET resp == fetchone(SelectIsAdmin(r.user))
              IN  IF isinstance_tuple(resp)
                  THEN IF Truthy(resp.v[1])
                       THEN Goto(h, [h EXCEPT !.pc = "locate"])
                       ELSE Respond(h, 403, "User hasnt permissions for edit event", FALSE, <<>>)
                  ELSE Respond(h, 404, "User not found", FALSE, <<>>)
           /\ UNCHANGED <<users, events, nextEid>>
        \/ /\ At(h, "update_event", "locate")
           /\ LET check == fetchone(SelectEventId(r.id))
              IN  IF isinstance_tuple(check)
                  THEN Goto(h, [h EXCEPT !.pc = "apply"])
                  ELSE Respond(h, 404, "Event not found", FALSE, <<>>)
           /\ UNCHANGED <<users, events, nextEid>>
        \/ /\ At(h, "update_event", "apply")
           /\ events' = UpdateEvent(r.id, r.title, r.description)
           /\ Respond(h, 200, "Event has been updated.", r.id \in DOMAIN events, <<>>)
           /\ UNCHANGED <<users, nextEid>>

update_date(h) ==
    LET r == h.req
    IN  \/ /\ At(h, "update_date", "auth")
           /\ LET resp == fetchone(SelectIsAdmin(r.user))
              IN  IF isinstance_tuple(resp)
                  THEN IF Truthy(resp.v[1])
                       THEN Goto(h, [h EXCEPT !.pc = "locate"])
                       ELSE Respond(h, 403, "User hasnt permissions for edit event", FALSE, <<>>)
                  ELSE Respond(h, 404, "User not found", FALSE, <<>>)
           /\ UNCHANGED <<users, events, nextEid>>
        \/ /\ At(h, "update_date", "locate")
           /\ LET check == fetchone(SelectEventId(r.id))
              IN  IF isinstance_tuple(check)
                  THEN Goto(h, [h EXCEPT !.pc = "apply"])
                  ELSE Respond(h, 404, "Event not found", FALSE, <<>>)
           /\ UNCHANGED <<users, events, nextEid>>
        \/ /\ At(h, "update_date", "apply")
           /\ events' = UpdateTime(r.id, r.time)
           /\ Respond(h, 200, "Event has been updated.", r.id \in DOMAIN events, <<>>)
           /\ UNCHANGED <<users, nextEid>>

update_members(h) ==
    LET r == h.req
    IN  \/ /\ At(h, "update_members", "auth")
           /\ LET resp == fetchone(SelectIsAdmin(r.user))
              IN  IF isinstance_tuple(resp)
                  THEN IF Truthy(resp.v[1])
                       THEN Goto(h, [h EXCEPT !.pc = "locate"])
                       ELSE Respond(h, 403, "User hasnt permissions for edit event", FALSE, <<>>)
                  ELSE Respond(h, 404, "User not found", FALSE, <<>>)
           /\ UNCHANGED <<users, events, nextEid>>
        \/ /\ At(h, "update_members", "locate")
           /\ LET check == fetchone(SelectMembers(r.id))
              IN  IF isinstance_tuple(check)
                  THEN Goto(h, [h EXCEPT !.pc = "member",
                                                 !.check = check.v[1].v])
                  ELSE Respond(h, 404, "Event not found", FALSE, <<>>)
           /\ UNCHANGED <<users, events, nextEid>>
        \/ /\ At(h, "update_members", "member")
           /\ LET answer == fetchone(SelectUserId(r.member_id))
                  parts == split(h.check)
                  list_ == [i \in 1..Len(parts) |-> PyStr(parts[i])]
              IN  IF isinstance_tuple(answer)
                  THEN IF ~PyIn(answer.v[1], list_)
                       THEN Goto(h, [h EXCEPT !.pc = "apply"])
                       ELSE Respond(h, 409, "Member already registed", FALSE, <<>>)
                  ELSE Respond(h, 404, "Member not found", FALSE, <<>>)
           /\ UNCHANGED <<users, events, nextEid>>
        \/ /\ At(h, "update_members", "apply")
           /\ events' = UpdateMembers(r.id, MembersToWrite(h))
           /\ Respond(h, 201, "Member has been added.", r.id \in DOMAIN events,
                      IF r.id \in DOMAIN events THEN events[r.id].members ELSE <<>>)
           /\ UNCHANGED <<users, nextEid>>

delete_event(h) ==
    LET r == h.req
    IN  \/ /\ At(h, "delete_event", "auth")
           /\ LET resp == fetchall(SelectIsAdmin(r.user))
              IN  IF isinstance_tuple(resp)
                  THEN IF Len(resp.v) = 0
                       THEN \* resp[0] of the empty tuple: IndexError
                            Respond(h, 500, "Internal Server Error", FALSE, <<>>)
                       ELSE IF Truthy(resp.v[1])
                       THEN Goto(h, [h EXCEPT !.pc = "locate"])
                       ELSE Respond(h, 403, "User hasnt permissions for create event", FALSE, <<>>)
                  ELSE Respond(h, 404, "User not found", FALSE, <<>>)
           /\ UNCHANGED <<users, events, nextEid>>
        \/ /\ At(h, "delete_event", "locate")
           /\ LET check == fetchone(SelectEventId(r.id))
              IN  IF isinstance_tuple(check)
                  THEN Goto(h, [h EXCEPT !.pc = "apply"])
                  ELSE Respond(h, 404, "Task not found", FALSE, <<>>)
           /\ UNCHANGED <<users, events, nextEid>>
        \/ /\ At(h, "delete_event", "apply")
           /\ events' = DeleteEvent(r.id)
           /\ Respond(h, 201, "Event has been deleted.", r.id \in DOMAIN events, <<>>)
           /\ UNCHANGED <<users, nextEid>>

(* ------------------------------- inputs -------------------------------- *)

Al == <<"a", "l">>

Bo == <<"b", "o">>

A7 == <<"a", "7">>

Am == <<"a", "-">>

Xy == <<"x", "y">>

X7 == <<"x", "7">>

Xm == <<"x", "-">>

\* passwords of five characters: letters of both cases only; no uppercase;
\* no lowercase; all four kinds
PwLetters == <<"a", "b", "c", "d", "E">>

PwNoUpper == <<"a", "b", "c", "d", "e">>

PwNoLower == <<"A", "B", "E", "1", "!">>

PwFull == <<"a", "B", "1", "!", "x">>

EventIds == 1..MaxEvents

\* member ids: those of the rows there can be, and one beyond them
MemberIds == 1..(MaxUsers + 1)

SeqRequests ==
    {UserReq(Al, Xy, PwLetters, TRUE), UserReq(Bo, Xy, PwLetters, FALSE),
     UserReq(A7, Xy, PwLetters, FALSE)}
        \cup {EventReq(u, "t1", "d1", 1) : u \in {Al, Bo}}
        \cup {EditReq(u, i, "t2", "d2") : u \in {Al, Bo}, i \in EventIds}
        \cup {DateReq(u, i, 2) : u \in {Al, Bo}, i \in EventIds}
        \cup {RsvpReq(u, i, m) : u \in {Al, Bo}, i \in EventIds, m \in MemberIds}
        \cup {DeleteReq(u, i) : u \in {Al, Bo}, i \in EventIds}

UserRequests ==
    {UserReq(n, sn, pw, FALSE) :
        n \in {Al, A7, Am}, sn \in {Xy, X7, Xm},
        pw \in {PwLetters, PwNoUpper, PwNoLower, PwFull}}

OverlapRequests ==
    {UserReq(n, Xy, pw, a) :
        n \in {Al, Bo}, pw \in {PwLetters, PwNoUpper}, a \in BOOLEAN}

RsvpRequests ==
    {UserReq(Al, Xy, PwLetters, TRUE), UserReq(Bo, Xy, PwLetters, FALSE),
     EventReq(Al, "t1", "d1", 1), RsvpReq(Al, 1, 1), RsvpReq(Al, 1, 2)}

RaceRequests ==
    {UserReq(Al, Xy, PwLetters, TRUE), EventReq(Al, "t1", "d1", 1),
     EditReq(Al, 1, "t2", "d2"), DateReq(Al, 1, 2), RsvpReq(Al, 1, 1),
     DeleteReq(Al, 1)}

(* --------------------------- specifications ---------------------------- *)

\* requests one after the other: a request arrives when no handler is running
ReceiveSeq(r) == inflight = EmptyBag /\ Receive(r)

Next ==
    \/ \E r \in SeqRequests : ReceiveSeq(r)
    \/ \E h \in Handlers : create_user(h)
    \/ \E h \in Handlers : create_event(h)
    \/ \E h \in Handlers : update_event(h)
    \/ \E h \in Handlers : update_date(h)
    \/ \E h \in Handlers : update_members(h)
    \/ \E h \in Handlers : delete_event(h)

Spec == Init /\ [][Next]_vars

\* create-user requests one after the other
NextUsers ==
    \/ \E r \in UserRequests : ReceiveSeq(r)
    \/ \E h \in Handlers : create_user(h)

SpecUsers == Init /\ [][NextUsers]_vars

\* overlapping create-user requests
NextOverlap ==
    \/ \E r \in OverlapRequests : Receive(r)
    \/ \E h \in Handlers : create_user(h)

SpecOverlap == Init /\ [][NextOverlap]_vars

\* overlapping requests of an administrator on one event
NextRace ==
    \/ \E r \in RaceRequests : Receive(r)
    \/ \E h \in Handlers : create_user(h)
    \/ \E h \in Handlers : create_event(h)
    \/ \E h \in Handlers : update_event(h)
    \/ \E h \in Handlers : update_date(h)
    \/ \E h \in Handlers : update_members(h)
    \/ \E h \in Handlers : delete_event(h)

SpecRace == Init /\ [][NextRace]_vars

\* overlapping RSVP requests of an administrator on one event
NextRsvp ==
    \/ \E r \in RsvpRequests : Receive(r)
    \/ \E h \in Handlers : create_user(h)
    \/ \E h \in Handlers : create_event(h)
    \/ \E h \in Handlers : update_members(h)

SpecRsvp == Init /\ [][NextRsvp]_vars

(* ------------------------- vocabulary of the claims -------------------- *)

\* this step is the last one of handler h: its response is last'
Completes(h) == h \in Handlers /\ inflight' = Without(h)

HasUser(name) == \E i \in UserIds : users[i].name = name

IsAdmin(name) == \E i \in UserIds : users[i].name = name /\ users[i].isadmin = 1

NonAdmin(name) == \E i \in UserIds : users[i].name = name /\ users[i].isadmin = 0

Success(status) == status \in {200, 201}

\* the identifiers of a members field read as a comma-separated list
Identifiers(m) == SelectSeq(split(m), LAMBDA p : p # <<>>)

NoRepeats(seq) == \A i, j \in 1..Len(seq) : i # j => seq[i] # seq[j]

Contains(seq, x) == \E i \in 1..Len(seq) : seq[i] = x

LettersOnly(s) == \A i \in 1..Len(s) : s[i] \in LowerChars \cup UpperChars

NoDigit(s) == \A i \in 1..Len(s) : s[i] \notin DigitChars

HasLower(s) == \E i \in 1..Len(s) : s[i] \in LowerChars

HasUpper(s) == \E i \in 1..Len(s) : s[i] \in UpperChars

(* -------------------------------- claims ------------------------------- *)

\* C1: a request of one of the five event operations whose acting user
\* exists with the administrator flag false is answered 403 and leaves the
\* event table as it was, and every change of the event table is made by a
\* request whose acting user has the administrator flag true.
C1_OnlyAdministratorsChangeEvents ==
    [][/\ \A h \in Handlers :
            (Completes(h) /\ h.req.op \in EventOps /\ NonAdmin(h.req.user))
                => (last'.status = 403 /\ events' = events)
       /\ events' # events
            => \E h \in Handlers : Completes(h) /\ IsAdmin(h.req.user)]_vars

\* C2: a request of one of the five event operations whose acting user name
\* matches no user row is answered 404 'User not found' and leaves the event
\* table unchanged, whether or not the targeted event exists.
C2_UnknownUserIs404 ==
    [][\A h \in Handlers :
        (Completes(h) /\ h.req.op \in EventOps /\ ~HasUser(h.req.user))
            => /\ last'.status = 404
               /\ last'.detail = "User not found"
               /\ events' = events]_vars

\* C3: an RSVP of an administrator for an existing event and an existing
\* member that directly follows the same RSVP answered 201 is answered 409
\* and leaves the event's members field unchanged.
C3_SecondRsvpIs409 ==
    [][\A h \in Handlers :
        (/\ Completes(h)
         /\ h.req.op = "update_members"
         /\ last.req = h.req
         /\ last.status = 201
         /\ IsAdmin(h.req.user)
         /\ h.req.id \in DOMAIN events
         /\ h.req.member_id \in UserIds)
            => (last'.status = 409 /\ events' = events)]_vars

\* C4: the members field of every event, read as a comma-separated list of
\* identifiers, holds no identifier more than once.
C4_NoDuplicateMembers ==
    \A i \in DOMAIN events : NoRepeats(Identifiers(events[i].members))

\* C5: a successful edit changes only title and description of its row, a
\* successful reschedule only time, a successful RSVP only members, and none
\* of them changes another row; the time of a row changes only by a
\* reschedule of that row and the creator name of a row never changes.
C5_MutationsChangeOnlyTheirFields ==
    [][LET kept == DOMAIN events \cap DOMAIN events'
           Same(i, fields) == \A f \in fields : events'[i][f] = events[i][f]
           Others(id) ==
               /\ DOMAIN events' = DOMAIN events
               /\ \A i \in DOMAIN events : i # id => events'[i] = events[i]
       IN  /\ \A i \in kept : events'[i].user = events[i].user
           /\ \A i \in kept :
                events'[i].time # events[i].time
                    => \E h \in Handlers :
                         /\ Completes(h)
                         /\ h.req.op = "update_date"
                         /\ h.req.id = i
           /\ \A h \in Handlers :
                (Completes(h) /\ Success(last'.status) /\ h.req.id \in DOMAIN events)
                    => CASE h.req.op = "update_event" ->
                                /\ Others(h.req.id)
                                /\ Same(h.req.id, {"user", "time", "members"})
                         [] h.req.op = "update_date" ->
                                /\ Others(h.req.id)
                                /\ Same(h.req.id, {"title", "user", "description",
                                                   "members"})
                         [] h.req.op = "update_members" ->
                                /\ Others(h.req.id)
                                /\ Same(h.req.id, {"title", "user", "description",
                                                   "time"})
                         [] OTHER -> TRUE]_vars

\* C5, its case: row 1 has been edited, rescheduled and joined while row 2 is
\* as it was created.
C5_Witness ==
    /\ DOMAIN events = {1, 2}
    /\ events[1] = [title |-> "t2", user |-> Al, description |-> "d2",
                    time |-> 2, members |-> <<"1", ",">>]
    /\ events[2] = [title |-> "t1", user |-> Al, description |-> "d1",
                    time |-> 1, members |-> <<>>]
    /\ last.req = DateReq(Al, 1, 2)
    /\ last.status = 200

UniqueNames == \A i, j \in UserIds : i # j => users[i].name # users[j].name

\* C6 as claimed: a create-user request whose name is the name of a stored
\* user is answered 400 'User already exists' and leaves the users table
\* unchanged, and no two user rows share a name.
C6_DuplicateNameIsUserAlreadyExists ==
    [][/\ \A h \in Handlers :
            (Completes(h) /\ h.req.op = "create_user" /\ HasUser(h.req.user))
                => /\ last'.status = 400
                   /\ last'.detail = "User already exists"
                   /\ users' = users
       /\ UniqueNames']_vars

\* C6 amended: a create-user request whose name is the name of a stored user
\* is answered 400 and leaves the users table unchanged, with the detail
\* 'User already exists' when its surname has no digit and its password has
\* a lowercase and an uppercase letter; no two user rows share a name, also
\* when the requests overlap.
C6_DuplicateNameIs400 ==
    [][/\ \A h \in Handlers :
            (Completes(h) /\ h.req.op = "create_user" /\ HasUser(h.req.user))
                => /\ last'.status = 400
                   /\ (/\ NoDigit(h.req.surname)
                       /\ HasLower(h.req.password)
                       /\ HasUpper(h.req.password))
                        => last'.detail = "User already exists"
                   /\ users' = users
       /\ UniqueNames']_vars

\* C6, its case: of two overlapping requests for one name the first has
\* inserted its row and the second has been answered 'User already exists',
\* while a third request for the name is running.
C6_Witness ==
    /\ last.req.op = "create_user"
    /\ last.status = 400
    /\ last.detail = "User already exists"
    /\ Len(users) = 1
    /\ users[1].name = last.req.user
    /\ \E h \in Handlers : h.req.op = "create_user" /\ h.req.user = last.req.user

\* C7 as claimed: every user row has a name and a surname of letters only
\* and a password with a lowercase and an uppercase letter; a request that
\* breaks one of these is answered 400 and inserts no row, and a request
\* that keeps them is accepted without a digit or a special character.
C7_RowsHaveLettersOnly ==
    [][/\ \A i \in 1..Len(users') :
            /\ LettersOnly(users'[i].name)
            /\ LettersOnly(users'[i].surname)
            /\ HasLower(users'[i].password)
            /\ HasUpper(users'[i].password)
       /\ \A h \in Handlers :
            (Completes(h) /\ h.req.op = "create_user")
                => IF /\ LettersOnly(h.req.user)
                      /\ LettersOnly(h.req.surname)
                      /\ HasLower(h.req.password)
                      /\ HasUpper(h.req.password)
                   THEN ~HasUser(h.req.user)
                            => (last'.status = 201 /\ Len(users') = Len(users) + 1)
                   ELSE last'.status = 400 /\ users' = users]_vars

\* C7 amended: every user row has a name and a surname without a digit and
\* a password with a lowercase and an uppercase letter; a request that
\* breaks one of these is answered 400 and inserts no row, and a request
\* that keeps them is accepted without a digit or a special character in
\* its password.
C7_RowsHaveNoDigit ==
    [][/\ \A i \in 1..Len(users') :
            /\ NoDigit(users'[i].name)
            /\ NoDigit(users'[i].surname)
            /\ HasLower(users'[i].password)
            /\ HasUpper(users'[i].password)
       /\ \A h \in Handlers :
            (Completes(h) /\ h.req.op = "create_user")
                => IF /\ NoDigit(h.req.user)
                      /\ NoDigit(h.req.surname)
                      /\ HasLower(h.req.password)
                      /\ HasUpper(h.req.password)
                   THEN ~HasUser(h.req.user)
                            => (last'.status = 201 /\ Len(users') = Len(users) + 1)
                   ELSE last'.status = 400 /\ users' = users]_vars

\* C7, its case: a row whose password has letters only is stored, and the
\* request answered last was refused for the digit in its name.
C7_Witness ==
    /\ \E i \in UserIds : users[i].password = PwLetters
    /\ last.req.op = "create_user"
    /\ last.req.user = A7
    /\ last.req.password = PwLetters
    /\ last.status = 400

\* C8: an event mutation ends on its first failing step, in the order
\* authorize, locate, apply: an unknown acting user gives 404 'User not
\* found', a non-administrator 403 whether or not the event exists, an
\* administrator on a missing event 404 'Event not found'; in RSVP a missing
\* member gives 404 'Member not found' and a member already in the list 409;
\* a request that fails writes nothing.
C8_FirstFailingStepInOrder ==
    [][\A h \in Handlers :
        (Completes(h) /\ h.req.op \in EventOps \ {"create_event"})
            => LET r == h.req
                   Is(status, detail) ==
                       last'.status = status /\ last'.detail = detail
               IN  /\ ~Success(last'.status) => events' = events
                   /\ IF ~HasUser(r.user) THEN Is(404, "User not found")
                      ELSE IF NonAdmin(r.user) THEN last'.status = 403
                      ELSE IF r.id \notin DOMAIN events
                      THEN Is(404, "Event not found")
                      ELSE IF r.op # "update_members" THEN Success(last'.status)
                      ELSE IF r.member_id \notin UserIds
                      THEN Is(404, "Member not found")
                      ELSE IF Contains(Identifiers(events[r.id].members),
                                       IntToStr(r.member_id))
                      THEN last'.status = 409
                      ELSE last'.status = 201]_vars

\* C9: an RSVP answered 201 leaves in the members field of its event the
\* value it read before with its own identifier appended, whatever the field
\* holds at the write: an identifier added between its read and its write is
\* lost although the RSVP that added it was answered 201.
C9_RsvpWritesWhatItRead ==
    [][\A h \in Handlers :
        (/\ Completes(h)
         /\ h.req.op = "update_members"
         /\ last'.status = 201
         /\ h.req.id \in DOMAIN events)
            => /\ h.req.id \in DOMAIN events'
               /\ Identifiers(events'[h.req.id].members)
                    = Append(Identifiers(h.check), IntToStr(h.req.member_id))]_vars

\* C9, its case: the RSVP answered last with 201 has replaced a members
\* field that held the identifier of another member, and that identifier is
\* no longer in the field.
C9_Witness ==
    /\ last.req.op = "update_members"
    /\ last.status = 201
    /\ last.matched
    /\ last.req.id \in DOMAIN events
    /\ \E i \in 1..Len(Identifiers(last.replaced)) :
         /\ Identifiers(last.replaced)[i] # IntToStr(last.req.member_id)
         /\ ~Contains(Identifiers(events[last.req.id].members),
                      Identifiers(last.replaced)[i])

\* C10: an edit, a reschedule or an RSVP that has found its event and whose
\* event is deleted before its UPDATE is still answered with its success
\* status, changes nothing, and does not create the event again.
C10_LateWriteChangesNothing ==
    [][\A h \in Handlers :
        (/\ Completes(h)
         /\ h.pc = "apply"
         /\ h.req.op \in {"update_event", "update_date", "update_members"}
         /\ h.req.id \notin DOMAIN events)
            => /\ events' = events
               /\ last'.status = IF h.req.op = "update_members" THEN 201 ELSE 200
               /\ ~last'.matched]_vars

\* C10, its case: the request answered last is an edit, a reschedule or an
\* RSVP answered with success whose UPDATE found no row, the event being
\* deleted.
C10_Witness ==
    /\ last.req.op \in {"update_event", "update_date", "update_members"}
    /\ Success(last.status)
    /\ ~last.matched
    /\ last.req.id < nextEid
    /\ last.req.id \notin DOMAIN events

====
